---- MODULE Spec2Model ----
(***************************************************************************)
(* A model of ereserve_downloader.py: the run of main() from the click on  *)
(* the "read" button (line 214) to the saved document (line 333).          *)
(*                                                                         *)
(* The program is one thread.  Everything it does not control (the tabs    *)
(* the browser opens, what a page shows when it is probed, the cookie jar, *)
(* the replies of the server, the wall clock) is an input, chosen with \E  *)
(* at the step that reads it.                                              *)
(*                                                                         *)
(* Strings whose characters the code looks at are sequences: a DOM value   *)
(* is a sequence of characters (strip), a URL path and a storage key are   *)
(* sequences of tokens, "/" being the separator (rstrip, split, rsplit).   *)
(* Python's None is written as the empty sequence where the code tests     *)
(* only truthiness (scanid), and as NoValue for a cookie value.            *)
(***************************************************************************)
EXTENDS Integers, Sequences, FiniteSets, TLC

VARIABLES
  pc,              \* where main() is: "watch", "enter_poll", "poll_head", "poll_page",
                   \* "viewer", "chapters", "snapshot", "chapter", "image",
                   \* "set_toc", "save", "done", "failed"
  error,           \* the kind of the fatal error that ended the run, "" while none
  seen_urls,       \* the urls in the message of the "scanid not found within timeout" error
  now,             \* time.time(), in poll ticks since the click
  deadline,        \* main's deadline (line 216)
  context_pages,   \* context.pages, the open tabs in opening order
  new_pages,       \* main's new_pages (line 222) at the last watch tick
  candidate_pages, \* main's candidate_pages
  scanid,          \* main's scanid, <<>> for None
  found_url,       \* main's found_url
  wait_deadline,   \* _wait_for_scanid's deadline (line 164)
  last_urls,       \* _wait_for_scanid's last_urls, a set of [page, url]
  pi,              \* position of _wait_for_scanid's "for p in pages"
  round_start,     \* log: time.time() when the current poll round, or watch tick, began
  probed,          \* log of the current poll round: one [page, scanid] per probe
  probed_url,      \* log: the url the context probed last showed when the probe ended
  observed,        \* log: every url a polled context showed when it was polled
  viewer_bookid,   \* main's viewer_bookid
  browser_cookies, \* the cookie jar of the browser context at the program's last read of it
  session,         \* the cookies of the requests.Session s, NoSession before line 259
  data,            \* the chapter list (line 254)
  ci,              \* position of "for item in data"
  jgps,            \* the entries of the current page manifest (line 285) that
                   \* "for img in jgps" has still to take
  toc,             \* main's toc
  doc,             \* the pages of the fitz document, in order: [chapter, file]
  page_index,      \* main's page_index
  files,           \* the image files under downloads/<book_id>/, as <<chapter_name, out_name>>
  posts,           \* log of the POSTs sent by _post_form_json: [api, form]
  header,          \* log: the botureadkernel header of the last POST sent
  gets,            \* log of the image GETs sent: the chapter each was for
  keys,            \* log of the image GETs sent: the filePath each asked for
  bridged,         \* log: the last call of _get_cookie_value, [cookies, cookie_name, value]
  last_reply,      \* log: the last HTTP reply received
  entries,         \* log: the number of manifest entries received so far
  toc_set,         \* number of calls of doc.set_toc
  saved            \* number of calls of doc.save

endVars == <<error, seen_urls>>

clockVars == <<now, deadline, wait_deadline>>

foundVars == <<scanid, found_url>>

pollVars == <<last_urls, pi>>

roundVars == <<round_start, probed, probed_url, observed>>

discoveryVars == <<clockVars, context_pages, new_pages, candidate_pages, foundVars, pollVars,
                   roundVars>>

cookieVars == <<browser_cookies, session>>

loopVars == <<data, ci, jgps>>

docVars == <<toc, doc, page_index, files>>

logVars == <<posts, header, gets, keys, bridged, last_reply, entries>>

outVars == <<toc_set, saved>>

walkVars == <<viewer_bookid, cookieVars, loopVars, docVars, logVars, outVars>>

vars == <<pc, endVars, discoveryVars, walkVars>>

----------------------------------------------------------------------------
(* Bounds of the model *)

\* tabs the click may open
MaxNewTabs == 2
\* DEFAULT_SCAN_TIMEOUT_MS counted in poll ticks (the code: 90000 ms, a tick is 200 ms)
ScanTimeoutTicks == 2
\* length of a chapter list
MaxChapters == 2
\* entries of all the page manifests of a run together
MaxPages == 2

\* length of a cookie list given to _get_cookie_value
MaxCookies == 2

\* the clock is followed no further than this
MaxClock == ScanTimeoutTicks + 2

----------------------------------------------------------------------------
(* Sequences *)

Last(s) == s[Len(s)]

Front(s) == SubSeq(s, 1, Len(s) - 1)

Range(s) == {s[i] : i \in 1..Len(s)}

SeqsUpTo(S, n) == UNION {[1..k -> S] : k \in 0..n}

Max(a, b) == IF a >= b THEN a ELSE b

----------------------------------------------------------------------------
(* Urls *)

Host == "ereserves.lib.tsinghua.edu.cn"

EmptyUrl == [scheme |-> "", netloc |-> "", path |-> <<>>]

ViewerUrl == [scheme |-> "https", netloc |-> Host, path |-> <<"/", "readkernel", "/", "77", "/">>]

RootUrl == [scheme |-> "https", netloc |-> Host, path |-> <<"/">>]

Urls == {EmptyUrl, RootUrl, ViewerUrl}

\* a read of page.url: a url, or the exception the code catches
UrlReads == [ok : {TRUE}, url : Urls] \cup {[ok |-> FALSE, url |-> EmptyUrl]}

RECURSIVE RStripSlash(_)
RStripSlash(path) ==
  IF path = <<>> THEN <<>>
  ELSE IF Last(path) = "/" THEN RStripSlash(Front(path))
  ELSE path

\* a variant of LastPathSegment that does not strip the trailing slashes
LastPathSegmentUnstripped(url) ==
  IF url.path = <<>> \/ Last(url.path) = "/" THEN "" ELSE Last(url.path)

LastPathSegment(url) ==
  LET path == RStripSlash(url.path)
  IN  IF path = <<>> THEN "" ELSE Last(path)

----------------------------------------------------------------------------
(* The DOM of a page, as _extract_scanid_now reads it *)

Raises == [k |-> "raise", v |-> <<>>]

PyNone == [k |-> "none", v |-> <<>>]

Str(chars) == [k |-> "str", v |-> chars]

NoElement == [count |-> "zero", getters |-> <<>>]

CountRaises == [count |-> "raise", getters |-> <<>>]

Element(attr, input, eval) == [count |-> "some", getters |-> <<attr, input, eval>>]

\* a frame: what each of the five selectors finds in it
FrameNone == <<NoElement, CountRaises, NoElement, NoElement, NoElement>>

FrameBlank == <<Element(PyNone, Str(<<>>), Str(<<" ">>)), NoElement, NoElement, NoElement, NoElement>>

FrameA == <<Element(PyNone, Raises, Str(<<" ", "a", " ">>)), NoElement, NoElement, NoElement, NoElement>>

FrameB == <<NoElement, NoElement, NoElement, NoElement, Element(Str(<<"b">>), PyNone, PyNone)>>

\* a page: its frames
DomSet == {<<FrameNone>>, <<FrameBlank>>, <<FrameNone, FrameA>>, <<FrameB, FrameA>>}

IsSpace(c) == c = " "

RECURSIVE LStrip(_)
LStrip(s) == IF s # <<>> /\ IsSpace(Head(s)) THEN LStrip(Tail(s)) ELSE s

RECURSIVE RStrip(_)
RStrip(s) == IF s # <<>> /\ IsSpace(Last(s)) THEN RStrip(Front(s)) ELSE s

Strip(s) == RStrip(LStrip(s))

\* the first non-empty value of a sequence of values, <<>> when there is none
RECURSIVE FirstValue(_)
FirstValue(values) ==
  IF values = <<>> THEN <<>>
  ELSE IF Head(values) # <<>> THEN Head(values)
  ELSE FirstValue(Tail(values))

GetterValue(g) == IF g.k = "str" /\ g.v # <<>> /\ Strip(g.v) # <<>> THEN Strip(g.v) ELSE <<>>

LocatorValue(loc) ==
  IF loc.count # "some" THEN <<>>
  ELSE FirstValue([i \in 1..Len(loc.getters) |-> GetterValue(loc.getters[i])])

FrameValue(frame) == FirstValue([i \in 1..Len(frame) |-> LocatorValue(frame[i])])

ExtractScanidNow(dom) == FirstValue([i \in 1..Len(dom) |-> FrameValue(dom[i])])

----------------------------------------------------------------------------
(* Pages and candidates *)

\* main's page, the tab that holds the detail page
page == 0

\* main's before_pages (line 213)
before_pages == <<page>>

RECURSIVE SelectNotIn(_, _)
SelectNotIn(s, S) ==
  IF s = <<>> THEN <<>>
  ELSE IF Head(s) \in S THEN SelectNotIn(Tail(s), S)
  ELSE <<Head(s)>> \o SelectNotIn(Tail(s), S)

NewPagesSince(pages, before) == SelectNotIn(pages, Range(before))

\* list(dict.fromkeys(s))
RECURSIVE Dedup(_)
Dedup(s) ==
  IF s = <<>> THEN <<>>
  ELSE LET rest == Dedup(Front(s))
       IN  IF Last(s) \in Range(rest) THEN rest ELSE Append(rest, Last(s))

\* a variant of CandidatePages that puts the original page first
CandidatePagesOriginalFirst(new) == Dedup(<<page>> \o new)

CandidatePages(new) == Dedup(<<Last(new), page>> \o new)

\* last_urls[id(p)] = u
SetLastUrl(urls, p, u) == {e \in urls : e.page # p} \cup {[page |-> p, url |-> u]}

\* sorted({u for u in last_urls.values() if u})
SeenUrls(urls) == {e.url : e \in {x \in urls : x.url # EmptyUrl}}

----------------------------------------------------------------------------
(* Cookies *)

NoValue == "<None>"

NoSession == <<[name |-> "<none>", value |-> "<none>"]>>

CookieName == "BotuReadKernel"

Cookie(name, value) == [name |-> name, value |-> value]

\* the cookie jars the browser context may hold when it is read
Jars ==
  { <<>>,
    <<Cookie("BotuReadKernel", "")>>,
    <<Cookie("BotuReadKernel", "k1")>>,
    <<Cookie("BotuReadKernel", ""), Cookie("botureadkernel", "k2")>> }

\* str.lower() on the names that occur
Lower(name) ==
  CASE name = "BotuReadKernel" -> "botureadkernel"
    [] OTHER -> name

RECURSIVE FirstCookie(_, _, _)
FirstCookie(cookies, name, fold) ==
  IF cookies = <<>> THEN NoValue
  ELSE LET c == Head(cookies)
           same == IF fold THEN Lower(c.name) = Lower(name) ELSE c.name = name
       IN  IF same /\ c.value # "" THEN c.value
           ELSE FirstCookie(Tail(cookies), name, fold)

\* a variant of GetCookieValue that only compares the names without their case
GetCookieValueFoldOnly(cookies, cookie_name) == FirstCookie(cookies, cookie_name, TRUE)

GetCookieValue(cookies, cookie_name) ==
  LET exact == FirstCookie(cookies, cookie_name, FALSE)
  IN  IF exact # NoValue THEN exact ELSE FirstCookie(cookies, cookie_name, TRUE)

\* a variant of MissingCookie that accepts every value
NeverMissing(value) == FALSE

\* a call of _get_cookie_value and what it returned
Bridge(cookies, cookie_name) ==
  [cookies |-> cookies, cookie_name |-> cookie_name,
   value |-> GetCookieValue(cookies, cookie_name)]

\* no call of _get_cookie_value yet
NoBridge == [cookies |-> <<>>, cookie_name |-> "", value |-> NoValue]

\* "if not botu_read_kernel" (line 96)
MissingCookie(value) == value = NoValue \/ value = ""

----------------------------------------------------------------------------
(* Replies of the server *)

NotJson == [t |-> "notjson"]

JsonNull == [t |-> "null"]

JsonAbsent == [t |-> "absent"]

JsonStr == [t |-> "str"]

JsonList(items) == [t |-> "list", items |-> items]

JsonObj(d) == [t |-> "obj", data |-> d]

JsonJgps(j) == [t |-> "obj", JGPS |-> j]

\* the statuses an API call is answered with
ApiStatuses == {199, 200, 300}

\* the statuses an image request is answered with
ImageStatuses == {200, 300, 404}

\* an item of the chapter list
NonDictItem == [isdict |-> FALSE, EMID |-> "", emid |-> "", EFRAGMENTNAME |-> ""]

ItemSet ==
  { NonDictItem,
    [isdict |-> TRUE, EMID |-> "", emid |-> "", EFRAGMENTNAME |-> "Ch0"],
    [isdict |-> TRUE, EMID |-> "A", emid |-> "", EFRAGMENTNAME |-> "Ch1"],
    [isdict |-> TRUE, EMID |-> "", emid |-> "B", EFRAGMENTNAME |-> ""] }

ChapterBodies ==
  {NotJson, JsonNull, JsonObj(JsonAbsent), JsonObj(JsonStr)}
    \cup {JsonObj(JsonList(l)) : l \in SeqsUpTo(ItemSet, MaxChapters)}

\* an entry of a page manifest; hfsKey <<>> is a missing or empty key
NonDictEntry == [isdict |-> FALSE, hfsKey |-> <<>>]

EntrySet ==
  { NonDictEntry,
    [isdict |-> TRUE, hfsKey |-> <<>>],
    [isdict |-> TRUE, hfsKey |-> <<"/", "x", "/", "p1.jpg">>],
    [isdict |-> TRUE, hfsKey |-> <<"/", "x", "/", "p2.jpg">>],
    [isdict |-> TRUE, hfsKey |-> <<"/", "y", "/", "p1.jpg">>],
    [isdict |-> TRUE, hfsKey |-> <<"/", "x", "/">>] }

ManifestBodies ==
  {NotJson, JsonNull, JsonObj(JsonAbsent), JsonObj(JsonStr),
   JsonObj(JsonJgps(JsonAbsent)), JsonObj(JsonJgps(JsonStr))}
    \cup {JsonObj(JsonJgps(JsonList(l))) : l \in SeqsUpTo(EntrySet, MaxPages)}

NoReply == [api |-> "none", status |-> 0, kind |-> "none"]

\* what the code makes of the body of a reply of the chapter-list call
ChapterBodyKind(body) ==
  IF body.t = "notjson" THEN "notjson"
  ELSE IF body.t # "obj" THEN "notobject"
  ELSE IF body.data.t # "list" THEN "nolist"
  ELSE "list"

\* what the code makes of the body of a reply of the page-manifest call
ManifestBodyKind(body) ==
  IF body.t = "notjson" THEN "notjson"
  ELSE IF body.t # "obj" THEN "nolist"
  ELSE IF body.data.t # "obj" THEN "nolist"
  ELSE IF body.data.JGPS.t # "list" THEN "nolist"
  ELSE "list"

\* the number of entries of the manifest in a reply
EntryCount(body) == IF ManifestBodyKind(body) = "list" THEN Len(body.data.JGPS.items) ELSE 0

\* item.get("EMID") or item.get("emid")
Emid(item) == IF item.EMID # "" THEN item.EMID ELSE item.emid

\* a variant of ChapterName that never takes the name of the chapter
ChapterNameFromId(item) == Emid(item)

\* item.get("EFRAGMENTNAME") or str(emid)
ChapterName(item) == IF item.EFRAGMENTNAME # "" THEN item.EFRAGMENTNAME ELSE Emid(item)

\* str(hfs_key).rsplit("/", 1)[-1] or "page.jpg"
OutName(hfs_key) ==
  LET segment == IF Last(hfs_key) = "/" THEN "" ELSE Last(hfs_key)
  IN  IF segment = "" THEN "page.jpg" ELSE segment

\* requests' Response.raise_for_status raises for a 4xx or 5xx status
RaiseForStatus(status) == 400 <= status /\ status < 600

\* a variant of _post_form_json that does not look at the status
PostFormJsonAnyStatus(cookies, reply) ==
  LET botu_read_kernel == GetCookieValue(cookies, CookieName)
  IN  IF MissingCookie(botu_read_kernel)
      THEN [sent |-> FALSE, header |-> botu_read_kernel, error |-> "MissingCredential",
            json |-> NotJson]
      ELSE IF reply.body = NotJson
      THEN [sent |-> TRUE, header |-> botu_read_kernel, error |-> "MalformedApiResponse",
            json |-> NotJson]
      ELSE [sent |-> TRUE, header |-> botu_read_kernel, error |-> "", json |-> reply.body]

\* a variant of _post_form_json that rejects a reply whose data has no JGPS list
PostFormJsonStrict(cookies, reply) ==
  LET botu_read_kernel == GetCookieValue(cookies, CookieName)
  IN  IF MissingCookie(botu_read_kernel)
      THEN [sent |-> FALSE, header |-> botu_read_kernel, error |-> "MissingCredential",
            json |-> NotJson]
      ELSE IF reply.status < 200 \/ reply.status >= 300
      THEN [sent |-> TRUE, header |-> botu_read_kernel, error |-> "MalformedApiResponse",
            json |-> NotJson]
      ELSE IF reply.body = NotJson
      THEN [sent |-> TRUE, header |-> botu_read_kernel, error |-> "MalformedApiResponse",
            json |-> NotJson]
      ELSE IF reply.body.t = "obj" /\ reply.body.data.t = "obj" /\ reply.body.data.JGPS.t # "list"
      THEN [sent |-> TRUE, header |-> botu_read_kernel, error |-> "MalformedApiResponse",
            json |-> NotJson]
      ELSE [sent |-> TRUE, header |-> botu_read_kernel, error |-> "", json |-> reply.body]

\* _post_form_json: what it sends and returns, given the cookie jar and the server's reply
PostFormJson(cookies, reply) ==
  LET botu_read_kernel == GetCookieValue(cookies, CookieName)
  IN  IF MissingCookie(botu_read_kernel)
      THEN [sent |-> FALSE, header |-> botu_read_kernel, error |-> "MissingCredential",
            json |-> NotJson]
      ELSE IF reply.status < 200 \/ reply.status >= 300
      THEN [sent |-> TRUE, header |-> botu_read_kernel, error |-> "MalformedApiResponse",
            json |-> NotJson]
      ELSE IF reply.body = NotJson
      THEN [sent |-> TRUE, header |-> botu_read_kernel, error |-> "MalformedApiResponse",
            json |-> NotJson]
      ELSE [sent |-> TRUE, header |-> botu_read_kernel, error |-> "", json |-> reply.body]


----------------------------------------------------------------------------
(* The state after the click (lines 188-219) *)

Init ==
  /\ pc = "watch"
  /\ error = ""
  /\ seen_urls = {}
  /\ now = 0
  /\ deadline = ScanTimeoutTicks
  /\ context_pages = before_pages
  /\ new_pages = <<>>
  /\ candidate_pages = <<page>>
  /\ scanid = <<>>
  /\ found_url = EmptyUrl
  /\ wait_deadline = 0
  /\ last_urls = {}
  /\ pi = 0
  /\ round_start = 0
  /\ probed = <<>>
  /\ probed_url = EmptyUrl
  /\ observed = {}
  /\ viewer_bookid = ""
  /\ browser_cookies = <<>>
  /\ session = NoSession
  /\ data = <<>>
  /\ ci = 0
  /\ jgps = <<>>
  /\ toc = <<>>
  /\ doc = <<>>
  /\ page_index = 0
  /\ files = {}
  /\ posts = <<>>
  /\ header = NoValue
  /\ gets = <<>>
  /\ keys = <<>>
  /\ bridged = NoBridge
  /\ last_reply = NoReply
  /\ entries = 0
  /\ toc_set = 0
  /\ saved = 0

\* raise SystemExit(...), or an exception nothing catches
Fail(kind) ==
  /\ pc' = "failed"
  /\ error' = kind

InDiscovery == pc \in {"watch", "enter_poll", "poll_head", "poll_page"}

----------------------------------------------------------------------------
(* Scan-id discovery: main, lines 221-241, and _wait_for_scanid *)

\* the browser opens one more tab
OpenTab ==
  /\ InDiscovery
  /\ Len(context_pages) <= MaxNewTabs
  /\ context_pages' = Append(context_pages, Len(context_pages))
  /\ UNCHANGED <<pc, endVars, clockVars, new_pages, candidate_pages, foundVars, pollVars,
                 roundVars, walkVars>>

\* lines 221-225: a tick of the watch loop that sees new tabs
WatchNewPages ==
  /\ pc = "watch"
  /\ now < deadline
  /\ NewPagesSince(context_pages, before_pages) # <<>>
  /\ new_pages' = NewPagesSince(context_pages, before_pages)
  /\ candidate_pages' = CandidatePages(new_pages')
  /\ round_start' = now
  /\ pc' = "enter_poll"
  /\ UNCHANGED <<endVars, clockVars, context_pages, foundVars, pollVars, probed, probed_url,
                 observed, walkVars>>

\* lines 221-234: a tick of the watch loop that sees no new tab and probes the page
WatchProbe ==
  /\ pc = "watch"
  /\ now < deadline
  /\ NewPagesSince(context_pages, before_pages) = <<>>
  /\ \E dom \in DomSet, url \in Urls, d \in 0..1 :
       LET maybe_scanid == ExtractScanidNow(dom)
       IN  /\ new_pages' = <<>>
           /\ round_start' = now
           /\ probed' = <<[page |-> page, scanid |-> maybe_scanid]>>
           /\ probed_url' = url
           /\ observed' = observed \cup {url}
           /\ IF maybe_scanid # <<>>
              THEN /\ candidate_pages' = <<>>
                   /\ scanid' = maybe_scanid
                   /\ found_url' = url
                   /\ now' = now + d
                   /\ pc' = "enter_poll"
              ELSE /\ now' = now + d + 1
                   /\ pc' = "watch"
                   /\ UNCHANGED <<candidate_pages, foundVars>>
  /\ UNCHANGED <<endVars, deadline, wait_deadline, context_pages, pollVars, walkVars>>

\* line 221: the watch loop ends at the deadline
WatchExpired ==
  /\ pc = "watch"
  /\ now >= deadline
  /\ pc' = "enter_poll"
  /\ UNCHANGED <<endVars, discoveryVars, walkVars>>

\* a variant of EnterPoll that gives the polling a fresh full timeout
EnterPollFreshTimeout ==
  /\ pc = "enter_poll"
  /\ IF candidate_pages # <<>>
     THEN /\ wait_deadline' = now + ScanTimeoutTicks
          /\ last_urls' = {}
          /\ pi' = 0
          /\ probed' = <<>>
          /\ pc' = "poll_head"
          /\ UNCHANGED error
     ELSE /\ IF scanid = <<>> THEN Fail("ScanIdNotFound") ELSE pc' = "viewer" /\ UNCHANGED error
          /\ UNCHANGED <<wait_deadline, pollVars, probed>>
  /\ UNCHANGED <<seen_urls, now, deadline, context_pages, new_pages, candidate_pages,
                 foundVars, round_start, probed_url, observed, walkVars>>

\* lines 236-241 and 164-165
EnterPoll ==
  /\ pc = "enter_poll"
  /\ IF candidate_pages # <<>>
     THEN /\ wait_deadline' = now + Max(0, deadline - now)
          /\ last_urls' = {}
          /\ pi' = 0
          /\ probed' = <<>>
          /\ pc' = "poll_head"
          /\ UNCHANGED error
     ELSE /\ IF scanid = <<>> THEN Fail("ScanIdNotFound") ELSE pc' = "viewer" /\ UNCHANGED error
          /\ UNCHANGED <<wait_deadline, pollVars, probed>>
  /\ UNCHANGED <<seen_urls, now, deadline, context_pages, new_pages, candidate_pages,
                 foundVars, round_start, probed_url, observed, walkVars>>

\* a variant of PollRound that takes the tabs open now for candidates
PollRoundRefreshing ==
  /\ pc = "poll_head"
  /\ now < wait_deadline
  /\ round_start' = now
  /\ probed' = <<>>
  /\ pi' = 1
  /\ pc' = "poll_page"
  /\ candidate_pages' = CandidatePages(NewPagesSince(context_pages, before_pages))
  /\ UNCHANGED <<endVars, clockVars, context_pages, new_pages, foundVars, last_urls,
                 probed_url, observed, walkVars>>

\* line 167: a poll round starts
PollRound ==
  /\ pc = "poll_head"
  /\ now < wait_deadline
  /\ round_start' = now
  /\ probed' = <<>>
  /\ pi' = 1
  /\ pc' = "poll_page"
  /\ UNCHANGED <<endVars, clockVars, context_pages, new_pages, candidate_pages, foundVars,
                 last_urls, probed_url, observed, walkVars>>

\* a variant of PollTimedOut that goes back to the watch loop instead of giving up
PollTimedOutRetry ==
  /\ pc = "poll_head"
  /\ ~(now < wait_deadline)
  /\ pc' = "watch"
  /\ UNCHANGED <<endVars, discoveryVars, walkVars>>

\* lines 167, 181-182: the deadline has passed
PollTimedOut ==
  /\ pc = "poll_head"
  /\ ~(now < wait_deadline)
  /\ seen_urls' = SeenUrls(last_urls)
  /\ Fail("ScanIdNotFound")
  /\ UNCHANGED <<discoveryVars, walkVars>>

\* lines 168-179: one candidate is probed; after the last one the loop sleeps.
\* p.url is read before the probe and, when the probe finds a token, once more
PollPage ==
  /\ pc = "poll_page"
  /\ \E before \in UrlReads, dom \in DomSet, after \in UrlReads, d \in 0..1 :
       LET p == candidate_pages[pi]
           sid == ExtractScanidNow(dom)
       IN  /\ now + d < MaxClock
           /\ last_urls' = IF before.ok THEN SetLastUrl(last_urls, p, before.url) ELSE last_urls
           /\ observed' = IF before.ok THEN observed \cup {before.url} ELSE observed
           /\ probed' = Append(probed, [page |-> p, scanid |-> sid])
           /\ IF sid # <<>>
              THEN /\ scanid' = sid
                   /\ found_url' = IF after.ok THEN after.url ELSE EmptyUrl
                   /\ probed_url' = after.url
                   /\ now' = now + d
                   /\ pc' = "viewer"
                   /\ UNCHANGED pi
              ELSE /\ after = before
                   /\ UNCHANGED <<foundVars, probed_url>>
                   /\ IF pi < Len(candidate_pages)
                      THEN /\ pi' = pi + 1
                           /\ now' = now + d
                           /\ pc' = "poll_page"
                      ELSE /\ pi' = 0
                           /\ now' = now + d + 1
                           /\ pc' = "poll_head"
  /\ UNCHANGED <<endVars, deadline, wait_deadline, context_pages, new_pages, candidate_pages,
                 round_start, walkVars>>

\* lines 243-245.  The clock, the tabs and the locals of the discovery are read no more:
\* the model follows them no further
ViewerBookId ==
  /\ pc = "viewer"
  /\ viewer_bookid' = LastPathSegment(found_url)
  /\ IF viewer_bookid' = ""
     THEN /\ Fail("MissingViewerContext")
          /\ UNCHANGED discoveryVars
     ELSE /\ pc' = "chapters"
          /\ UNCHANGED error
          /\ now' = 0
          /\ deadline' = 0
          /\ wait_deadline' = 0
          /\ context_pages' = before_pages
          /\ new_pages' = <<>>
          /\ candidate_pages' = <<>>
          /\ last_urls' = {}
          /\ pi' = 0
          /\ round_start' = 0
          /\ probed' = <<>>
          /\ probed_url' = EmptyUrl
          /\ observed' = {}
          /\ UNCHANGED foundVars
  /\ UNCHANGED <<seen_urls, cookieVars, loopVars, docVars, logVars, outVars>>

----------------------------------------------------------------------------
(* The chapter walk: main, lines 247-333 *)

\* lines 247-256: the chapter-list call
FetchChapters ==
  /\ pc = "chapters"
  /\ \E cookies \in Jars, reply \in [status : ApiStatuses, body : ChapterBodies] :
       LET r == PostFormJson(cookies, reply)
       IN  /\ browser_cookies' = cookies
           /\ bridged' = Bridge(cookies, CookieName)
           /\ UNCHANGED entries
           /\ IF r.sent
              THEN /\ posts' = Append(posts, [api |-> "chapters", form |-> <<scanid>>])
                   /\ header' = r.header
                   /\ last_reply' = [api |-> "chapters", status |-> reply.status,
                                     kind |-> ChapterBodyKind(reply.body)]
              ELSE UNCHANGED <<posts, header, last_reply>>
           /\ IF r.error # ""
              THEN Fail(r.error) /\ UNCHANGED data
              ELSE IF r.json.t # "obj"
              THEN Fail("Crash") /\ UNCHANGED data
              ELSE IF r.json.data.t # "list"
              THEN Fail("MalformedApiResponse") /\ UNCHANGED data
              ELSE /\ data' = r.json.data.items
                   /\ pc' = "snapshot"
                   /\ UNCHANGED error
  /\ UNCHANGED <<seen_urls, discoveryVars, viewer_bookid, session, ci, jgps, docVars, gets,
                 keys, outVars>>

\* lines 258-261: the cookies of the browser context are copied into the session
SnapshotCookies ==
  /\ pc = "snapshot"
  /\ \E cookies \in Jars :
       /\ browser_cookies' = cookies
       /\ session' = cookies
  /\ ci' = 1
  /\ pc' = "chapter"
  /\ UNCHANGED <<endVars, discoveryVars, viewer_bookid, data, jgps, docVars, logVars, outVars>>

\* a variant of SkipItem that passes over any item
SkipAnyItem ==
  /\ pc = "chapter"
  /\ ci <= Len(data)
  /\ ci' = ci + 1
  /\ UNCHANGED <<pc, endVars, discoveryVars, viewer_bookid, cookieVars, data, jgps, docVars,
                 logVars, outVars>>

\* lines 264-269: an item that is no object, or has no id, is passed over
SkipItem ==
  /\ pc = "chapter"
  /\ ci <= Len(data)
  /\ ~data[ci].isdict \/ Emid(data[ci]) = ""
  /\ ci' = ci + 1
  /\ UNCHANGED <<pc, endVars, discoveryVars, viewer_bookid, cookieVars, data, jgps, docVars,
                 logVars, outVars>>

\* lines 271-287: the page-manifest call of a chapter, and its toc entry
FetchManifest ==
  /\ pc = "chapter"
  /\ ci <= Len(data)
  /\ data[ci].isdict
  /\ Emid(data[ci]) # ""
  /\ \E cookies \in Jars, reply \in [status : ApiStatuses, body : ManifestBodies] :
       LET r == PostFormJson(cookies, reply)
           chapter_name == ChapterName(data[ci])
       IN  /\ entries + EntryCount(reply.body) <= MaxPages
           /\ entries' = entries + EntryCount(reply.body)
           /\ browser_cookies' = cookies
           /\ bridged' = Bridge(cookies, CookieName)
           /\ IF r.sent
              THEN /\ posts' = Append(posts, [api |-> "chapter",
                                              form |-> <<Emid(data[ci]), viewer_bookid>>])
                   /\ header' = r.header
                   /\ last_reply' = [api |-> "chapter", status |-> reply.status,
                                     kind |-> ManifestBodyKind(reply.body)]
              ELSE UNCHANGED <<posts, header, last_reply>>
           /\ IF r.error # ""
              THEN /\ Fail(r.error)
                   /\ UNCHANGED <<toc, ci, jgps>>
              ELSE /\ toc' = Append(toc, <<1, chapter_name, page_index + 1>>)
                   /\ UNCHANGED error
                   /\ IF ManifestBodyKind(r.json) # "list"
                      THEN /\ ci' = ci + 1
                           /\ pc' = "chapter"
                           /\ UNCHANGED jgps
                      ELSE /\ jgps' = r.json.data.JGPS.items
                           /\ pc' = "image"
                           /\ UNCHANGED ci
  /\ UNCHANGED <<seen_urls, discoveryVars, viewer_bookid, session, data, doc, page_index,
                 files, gets, keys, outVars>>

\* a variant of SkipEntry that counts the entry it passes over as a page
SkipEntryCounting ==
  /\ pc = "image"
  /\ jgps # <<>>
  /\ ~Head(jgps).isdict \/ Head(jgps).hfsKey = <<>>
  /\ jgps' = Tail(jgps)
  /\ page_index' = page_index + 1
  /\ UNCHANGED <<pc, endVars, discoveryVars, viewer_bookid, cookieVars, data, ci, toc, doc,
                 files, logVars, outVars>>

\* lines 289-294: an entry that is no object, or has no storage key, is passed over
SkipEntry ==
  /\ pc = "image"
  /\ jgps # <<>>
  /\ ~Head(jgps).isdict \/ Head(jgps).hfsKey = <<>>
  /\ jgps' = Tail(jgps)
  /\ UNCHANGED <<pc, endVars, discoveryVars, viewer_bookid, cookieVars, data, ci, docVars,
                 logVars, outVars>>

\* lines 295-317: one image is fetched, stored and placed in the document
AcquirePage ==
  /\ pc = "image"
  /\ jgps # <<>>
  /\ Head(jgps).isdict
  /\ Head(jgps).hfsKey # <<>>
  /\ \E status \in ImageStatuses, image \in BOOLEAN :
       LET hfs_key == Head(jgps).hfsKey
           path == <<ChapterName(data[ci]), OutName(hfs_key)>>
       IN  /\ gets' = Append(gets, ci)
           /\ keys' = Append(keys, hfs_key)
           /\ last_reply' = [api |-> "image", status |-> status,
                             kind |-> IF image THEN "image" ELSE "notimage"]
           /\ IF RaiseForStatus(status)
              THEN /\ Fail("DownloadFailed")
                   /\ UNCHANGED <<files, doc, page_index, jgps>>
              ELSE /\ files' = files \cup {path}
                   /\ IF ~image
                      THEN /\ Fail("Crash")
                           /\ UNCHANGED <<doc, page_index, jgps>>
                      ELSE /\ doc' = Append(doc, [chapter |-> ci, file |-> path])
                           /\ page_index' = page_index + 1
                           /\ jgps' = Tail(jgps)
                           /\ UNCHANGED <<pc, error>>
  /\ UNCHANGED <<seen_urls, discoveryVars, viewer_bookid, cookieVars, data, ci, toc, posts,
                 header, bridged, entries, outVars>>

\* a variant of ChapterDone that may leave a chapter before its manifest is exhausted
ChapterDoneAnytime ==
  /\ pc = "image"
  /\ ci' = ci + 1
  /\ pc' = "chapter"
  /\ UNCHANGED <<endVars, discoveryVars, viewer_bookid, cookieVars, data, jgps, docVars,
                 logVars, outVars>>

\* a variant of ChapterDone that copies the browser's cookies into the session again
ChapterDoneResnapshot ==
  /\ pc = "image"
  /\ jgps = <<>>
  /\ \E cookies \in Jars :
       /\ browser_cookies' = cookies
       /\ session' = cookies
  /\ ci' = ci + 1
  /\ pc' = "chapter"
  /\ UNCHANGED <<endVars, discoveryVars, viewer_bookid, data, jgps, docVars, logVars, outVars>>

\* line 289: the manifest of the chapter is exhausted
ChapterDone ==
  /\ pc = "image"
  /\ jgps = <<>>
  /\ ci' = ci + 1
  /\ pc' = "chapter"
  /\ UNCHANGED <<endVars, discoveryVars, viewer_bookid, cookieVars, data, jgps, docVars,
                 logVars, outVars>>

\* a variant of WalkDone that leaves the walk at any item
WalkDoneEarly ==
  /\ pc = "chapter"
  /\ pc' = "set_toc"
  /\ UNCHANGED <<endVars, discoveryVars, walkVars>>

\* lines 264, 319-328: the chapter list is exhausted; the browser is closed
WalkDone ==
  /\ pc = "chapter"
  /\ ci > Len(data)
  /\ pc' = "set_toc"
  /\ UNCHANGED <<endVars, discoveryVars, walkVars>>

\* line 330
SetToc ==
  /\ pc = "set_toc"
  /\ toc_set' = toc_set + 1
  /\ pc' = "save"
  /\ UNCHANGED <<endVars, discoveryVars, viewer_bookid, cookieVars, loopVars, docVars,
                 logVars, saved>>

\* lines 331-333
Save ==
  /\ pc = "save"
  /\ saved' = saved + 1
  /\ pc' = "done"
  /\ UNCHANGED <<endVars, discoveryVars, viewer_bookid, cookieVars, loopVars, docVars,
                 logVars, toc_set>>

----------------------------------------------------------------------------

Next ==
  \/ OpenTab
  \/ WatchNewPages
  \/ WatchProbe
  \/ WatchExpired
  \/ EnterPoll
  \/ PollRound
  \/ PollTimedOut
  \/ PollPage
  \/ ViewerBookId
  \/ FetchChapters
  \/ SnapshotCookies
  \/ SkipItem
  \/ FetchManifest
  \/ SkipEntry
  \/ AcquirePage
  \/ ChapterDone
  \/ WalkDone
  \/ SetToc
  \/ Save

Spec == Init /\ [][Next]_vars

----------------------------------------------------------------------------
(* The scan-id discovery alone: main up to line 241 *)

\* a step of the program in the discovery
DiscoveryStep ==
  \/ WatchNewPages
  \/ WatchProbe
  \/ WatchExpired
  \/ EnterPoll
  \/ PollRound
  \/ PollTimedOut
  \/ PollPage

DiscoveryNext ==
  \/ OpenTab
  \/ WatchNewPages
  \/ WatchProbe
  \/ WatchExpired
  \/ EnterPoll
  \/ PollRound
  \/ PollTimedOut
  \/ PollPage

\* the program runs on: the clock advances and every probe returns, so a step
\* of the discovery that can be taken is taken
SpecDiscovery == Init /\ [][DiscoveryNext]_vars /\ WF_vars(DiscoveryStep)

----------------------------------------------------------------------------
(* _get_cookie_value alone, on the cookie lists and names below *)

\* the cookies a list is made of
CookieSet == [name : {"BotuReadKernel", "botureadkernel", "other"}, value : {"", "k1", "k2"}]

\* what context.cookies(url) returns (the empty list also when it raises)
CookieLists == SeqsUpTo(CookieSet, MaxCookies)

\* the names asked for
RequestedNames == {"BotuReadKernel", "botureadkernel"}

InitCookie ==
  /\ pc = "bridge"
  /\ error = ""
  /\ seen_urls = {}
  /\ now = 0
  /\ deadline = ScanTimeoutTicks
  /\ context_pages = before_pages
  /\ new_pages = <<>>
  /\ candidate_pages = <<page>>
  /\ scanid = <<>>
  /\ found_url = EmptyUrl
  /\ wait_deadline = 0
  /\ last_urls = {}
  /\ pi = 0
  /\ round_start = 0
  /\ probed = <<>>
  /\ probed_url = EmptyUrl
  /\ observed = {}
  /\ viewer_bookid = ""
  /\ browser_cookies \in CookieLists
  /\ session = NoSession
  /\ data = <<>>
  /\ ci = 0
  /\ jgps = <<>>
  /\ toc = <<>>
  /\ doc = <<>>
  /\ page_index = 0
  /\ files = {}
  /\ posts = <<>>
  /\ header = NoValue
  /\ gets = <<>>
  /\ keys = <<>>
  /\ bridged = NoBridge
  /\ last_reply = NoReply
  /\ entries = 0
  /\ toc_set = 0
  /\ saved = 0

\* lines 70-85: one call of _get_cookie_value on the cookies of the browser
GetCookie ==
  /\ pc = "bridge"
  /\ \E cookie_name \in RequestedNames : bridged' = Bridge(browser_cookies, cookie_name)
  /\ pc' = "bridged"
  /\ UNCHANGED <<endVars, discoveryVars, viewer_bookid, cookieVars, loopVars, docVars, posts,
                 header, gets, keys, last_reply, entries, outVars>>

CookieNext ==
  \/ GetCookie

SpecCookie == InitCookie /\ [][CookieNext]_vars

----------------------------------------------------------------------------
(* Properties of the scan-id discovery *)

\* the order in which the contexts are to be asked: the newest new tab, the
\* original page, then the other new tabs in the order they were opened
PriorityOrder(new) ==
  IF new = <<>> THEN <<page>> ELSE <<Last(new), page>> \o Front(new)

\* C1: when discovery returns, the token it returns is the one of the first
\* context, in the order newest new tab, original page, other new tabs, that
\* showed a non-blank token in the round of probes that ended the discovery:
\* the contexts probed in that round are a prefix of that order, all but the
\* last showed no token, the last showed the token returned, and the url
\* returned is the url that context showed (empty when it could not be read).
C1_FirstInPriorityOrder ==
  pc = "viewer" =>
    /\ probed # <<>>
    /\ Len(probed) <= Len(PriorityOrder(new_pages))
    /\ \A i \in 1..Len(probed) : probed[i].page = PriorityOrder(new_pages)[i]
    /\ \A i \in 1..(Len(probed) - 1) : probed[i].scanid = <<>>
    /\ Last(probed).scanid # <<>>
    /\ scanid = Last(probed).scanid
    /\ found_url = probed_url

\* C1: the newest tab and the original page show nothing, the older new tab shows a token
C1_Witness ==
  /\ pc = "viewer"
  /\ new_pages = <<1, 2>>
  /\ Len(probed) = 3
  /\ probed[3].page = 1
  /\ scanid = <<"b">>
  /\ found_url = ViewerUrl

\* C2: when the discovery ends with "scanid not found", the message lists
\* every url a context showed when it was polled, in the watch loop or in
\* the polling of the candidates.
C2_EveryObservedUrlReported ==
  error = "ScanIdNotFound" => (observed \ {EmptyUrl}) \subseteq seen_urls

----------------------------------------------------------------------------
(* Properties of the chapter walk *)

\* C3: when the table of contents is attached, the start page of every entry
\* is the number of a page of the document.
C3_StartPagesArePlaced ==
  pc = "set_toc" => \A i \in 1..Len(toc) : 1 <= toc[i][3] /\ toc[i][3] <= Len(doc)

\* the chapters (positions in data) that have a page in the document
ChaptersWithPages == {doc[k].chapter : k \in 1..Len(doc)}

\* the number of the first page of chapter c
FirstPageOf(c) == CHOOSE k \in 1..Len(doc) :
                    doc[k].chapter = c /\ \A j \in 1..(k - 1) : doc[j].chapter # c

\* C4: the table of contents has one entry per chapter that has a page in the
\* document and none for any other: the entries are of level 1, come in the
\* order of the chapters, and each starts at the first page of its chapter.
C4_EntryIffPagePlaced ==
  pc = "set_toc" =>
    /\ Len(toc) = Cardinality(ChaptersWithPages)
    /\ \A i \in 1..Len(toc) :
         /\ toc[i][1] = 1
         /\ \E c \in ChaptersWithPages :
              /\ toc[i][2] = ChapterName(data[c])
              /\ toc[i][3] = FirstPageOf(c)
              /\ Cardinality({b \in ChaptersWithPages : b < c}) = i - 1

\* C5: the page counter is the number of pages of the document, in every
\* state; it starts at 0, so the first page placed is page 1; a step either
\* leaves it, and then places no page, or adds exactly 1 to it, and then
\* places exactly one page at the end of the document.
C5_CounterIsPageCount ==
  /\ page_index = 0
  /\ [](page_index = Len(doc))
  /\ [][\/ page_index' = page_index /\ doc' = doc
        \/ /\ page_index' = page_index + 1
           /\ Len(doc') = Len(doc) + 1
           /\ SubSeq(doc', 1, Len(doc)) = doc]_vars

\* C5: two pages, one in each of two chapters
C5_Witness ==
  /\ pc = "done"
  /\ page_index = 2
  /\ doc[1].chapter = 1
  /\ doc[2].chapter = 2

\* the items of a chapter list that the walk takes for chapters: the objects with an id
RECURSIVE ChaptersOf(_)
ChaptersOf(items) ==
  IF items = <<>> THEN <<>>
  ELSE IF Head(items).isdict /\ (Head(items).EMID # "" \/ Head(items).emid # "")
  THEN <<Head(items)>> \o ChaptersOf(Tail(items))
  ELSE ChaptersOf(Tail(items))

\* the page-manifest calls sent so far
ManifestPosts == SelectSeq(posts, LAMBDA q : q.api = "chapter")

\* C6 as stated: a run that reaches the end of a chapter list of length N has
\* sent N page-manifest calls, one per item of the list.
C6_OneCallPerItem ==
  pc = "set_toc" => Len(ManifestPosts) = Len(data)

\* C6, amended: a run that reaches the end of the chapter list has sent one
\* page-manifest call per item of the list that is an object with a non-empty
\* EMID or emid, in the order of the list and with that id, and no other; the
\* titles of the table of contents are those of the same items, in the same order.
C6_OneCallPerChapterInOrder ==
  pc = "set_toc" =>
    LET chapters == ChaptersOf(data)
    IN  /\ Len(ManifestPosts) = Len(chapters)
        /\ \A i \in 1..Len(chapters) :
             ManifestPosts[i].form[1] =
               (IF chapters[i].EMID # "" THEN chapters[i].EMID ELSE chapters[i].emid)
        /\ Len(toc) = Len(chapters)
        /\ \A i \in 1..Len(chapters) :
             toc[i][2] =
               (IF chapters[i].EFRAGMENTNAME # "" THEN chapters[i].EFRAGMENTNAME
                ELSE IF chapters[i].EMID # "" THEN chapters[i].EMID ELSE chapters[i].emid)

\* C6: a list of two items of which the first is no object: one manifest call
C6_Witness ==
  /\ pc = "set_toc"
  /\ Len(data) = 2
  /\ ~data[1].isdict
  /\ Len(ManifestPosts) = 1
  /\ toc = <<<<1, "Ch1", 1>>>>

\* a page-manifest reply of a 2xx status whose JSON has no JGPS list has just been received
MalformedManifestReceived ==
  /\ pc = "chapter"
  /\ posts' # posts
  /\ last_reply'.api = "chapter"
  /\ last_reply'.status >= 200 /\ last_reply'.status < 300
  /\ last_reply'.kind = "nolist"

\* C7: the step that receives a page manifest without a JGPS list does not
\* end the run, sends no image request, stores no file, places no page, and
\* moves on to the next item of the chapter list; and an image request is
\* only ever sent for the chapter whose manifest is being walked, so none
\* is sent for that chapter later.
C7_MalformedManifestSkipsChapter ==
  [][/\ MalformedManifestReceived =>
          /\ pc' = "chapter"
          /\ error' = ""
          /\ ci' = ci + 1
          /\ gets' = gets
          /\ files' = files
          /\ doc' = doc
          /\ \A k \in 1..Len(gets) : gets[k] # ci
     /\ ci' >= ci
     /\ gets' # gets => pc = "image" /\ gets' = Append(gets, ci)]_vars

\* C7: the first of two chapters had a manifest without a list; the walk is at the second
C7_Witness ==
  /\ pc = "chapter"
  /\ error = ""
  /\ Len(data) = 2
  /\ ci = 2
  /\ Len(posts) = 2
  /\ last_reply = [api |-> "chapter", status |-> 200, kind |-> "nolist"]
  /\ gets = <<>>
  /\ doc = <<>>

\* the last reply received is a chapter-list reply the code must refuse
BadChapterList ==
  /\ last_reply.api = "chapters"
  /\ \/ last_reply.status < 200
     \/ last_reply.status >= 300
     \/ last_reply.kind # "list"

\* C8: after a chapter-list reply of a status outside [200,300), or that is no
\* JSON, or whose data is absent or no list, the run has ended with an error,
\* the chapter-list call is the only call that was sent, no image was
\* requested, no table of contents attached and nothing saved; and a run that
\* has ended takes no further step.
C8_BadChapterListAborts ==
  /\ [](BadChapterList =>
          /\ pc = "failed"
          /\ error \in {"MalformedApiResponse", "Crash"}
          /\ Len(posts) = 1
          /\ gets = <<>>
          /\ toc = <<>>
          /\ doc = <<>>
          /\ toc_set = 0
          /\ saved = 0)
  /\ [][pc # "failed"]_vars

\* C8: a 200 reply whose data is no list ended the run
C8_Witness ==
  /\ last_reply = [api |-> "chapters", status |-> 200, kind |-> "nolist"]
  /\ pc = "failed"
  /\ error = "MalformedApiResponse"

\* the jar holds no cookie of the name, in any case of letters, with a non-empty value
NoMatchingCookie(jar) ==
  \A k \in 1..Len(jar) : Lower(jar[k].name) # "botureadkernel" \/ jar[k].value = ""

\* main is about to call _post_form_json: for the chapter list, or for the page
\* manifest of an item that is an object with an id
AtApiCall ==
  \/ pc = "chapters"
  \/ /\ pc = "chapter"
     /\ ci <= Len(data)
     /\ data[ci].isdict
     /\ (data[ci].EMID # "" \/ data[ci].emid # "")

\* C9: an API call made while the browser holds no matching cookie with a
\* non-empty value ends the run with MissingCredential and sends nothing;
\* every other API call sends one POST, whose botureadkernel header is the
\* non-empty value of a matching cookie of the browser.
C9_NoPostWithoutCredential ==
  [][AtApiCall =>
       IF NoMatchingCookie(browser_cookies')
       THEN /\ pc' = "failed"
            /\ error' = "MissingCredential"
            /\ posts' = posts
       ELSE /\ Len(posts') = Len(posts) + 1
            /\ header' # ""
            /\ \E k \in 1..Len(browser_cookies') :
                 /\ Lower(browser_cookies'[k].name) = "botureadkernel"
                 /\ browser_cookies'[k].value = header']_vars

\* C9: the cookie is gone at the second page-manifest call
C9_Witness ==
  /\ error = "MissingCredential"
  /\ Len(posts) = 2
  /\ NoMatchingCookie(browser_cookies)
  /\ header = "k1"

\* C10: after an image reply of a status outside the 2xx range the run has
\* ended with DownloadFailed, and the file of that entry was not written nor
\* a page placed for it.
C10_NonSuccessImageAborts ==
  [][(gets' # gets /\ (last_reply'.status < 200 \/ last_reply'.status >= 300)) =>
       /\ pc' = "failed"
       /\ error' = "DownloadFailed"
       /\ files' = files
       /\ doc' = doc]_vars

\* C11: after a run that reached its end, the image files under the book's
\* chapter directories are as many as the pages of the document: every page
\* placed has a file of its own.
C11_OneFilePerPage ==
  pc = "done" => Cardinality(files) = Len(doc)

----------------------------------------------------------------------------
(* Properties of the discovery's clock *)

\* C12: one deadline bounds the discovery.  The deadline of the polling is
\* main's deadline, or the time the polling was entered when main's deadline
\* had already passed (no time remaining), never a later time; every tick of
\* the watch loop and every poll round starts before main's deadline, so a
\* token is only ever found in a tick or round that started before it.  (A
\* tick or round in progress at the deadline is finished.)
C12_OneDeadline ==
  /\ pc \in {"poll_head", "poll_page"} => wait_deadline <= Max(deadline, now)
  /\ pc \in {"poll_page", "viewer"} => round_start < deadline
  /\ InDiscovery => deadline = ScanTimeoutTicks

\* C12: the watch loop used one tick; the token was found in a poll round that
\* started at tick 1 and had the one tick that remained
C12_Witness ==
  /\ pc = "viewer"
  /\ new_pages # <<>>
  /\ round_start = 1
  /\ wait_deadline = deadline
  /\ probed # <<>>

----------------------------------------------------------------------------
(* Properties of the end of the run *)

\* C13: the table of contents is attached at most once and the document saved
\* at most once, the saving after the attaching, and both only when every
\* item of the chapter list has been walked and no fatal error has occurred;
\* a run that ended with a fatal error has attached no table of contents and
\* saved no document.
C13_AttachAndSaveOnceAtEnd ==
  /\ toc_set <= 1
  /\ saved <= toc_set
  /\ toc_set > 0 => /\ pc \in {"save", "done"}
                    /\ error = ""
                    /\ ci = Len(data) + 1
  /\ saved > 0 => pc = "done"
  /\ (pc = "failed" \/ error # "") => toc_set = 0 /\ saved = 0

\* C13: a run over two chapters that placed a page, attached and saved
C13_Witness ==
  /\ pc = "done"
  /\ toc_set = 1
  /\ saved = 1
  /\ Len(data) = 2
  /\ Len(toc) = 2
  /\ Len(doc) >= 1

\* the run of C14: the chapter list is the single chapter of id "A" and name
\* "Ch1", its manifest is the two storage keys "/x/p1.jpg" and "/x/p2.jpg",
\* both were requested, and the run reached its end
C14_Run ==
  /\ pc = "done"
  /\ data = <<[isdict |-> TRUE, EMID |-> "A", emid |-> "", EFRAGMENTNAME |-> "Ch1"]>>
  /\ entries = 2
  /\ keys = << <<"/", "x", "/", "p1.jpg">>, <<"/", "x", "/", "p2.jpg">> >>

\* C14: after that run the document has exactly 2 pages, made of p1.jpg and
\* p2.jpg in this order, and the table of contents has exactly 1 entry, of
\* level 1, title "Ch1" and start page 1.
C14_TwoPagesOneEntry ==
  C14_Run =>
    /\ Len(doc) = 2
    /\ doc[1].file = <<"Ch1", "p1.jpg">>
    /\ doc[2].file = <<"Ch1", "p2.jpg">>
    /\ toc = << <<1, "Ch1", 1>> >>
    /\ toc_set = 1
    /\ saved = 1

\* C14: that run with both images answered 200
C14_Witness ==
  /\ C14_Run
  /\ Len(posts) = 2
  /\ last_reply = [api |-> "image", status |-> 200, kind |-> "image"]

----------------------------------------------------------------------------
(* Properties of the cookies *)

\* C15: the cookies of the download session are set by one step only, the
\* copy of the browser's cookies made after the discovery and before any
\* image request; they are set before the first image request, and no later
\* step changes them, whatever the browser's cookie jar becomes.
C15_SnapshotOnce ==
  /\ [](gets # <<>> => session # NoSession)
  /\ [][session' # session =>
          /\ pc = "snapshot"
          /\ session = NoSession
          /\ scanid # <<>>
          /\ gets = <<>>
          /\ session' = browser_cookies'
          /\ session' # NoSession]_vars

\* C15: the browser's jar changed after the copy and an image was downloaded
\* with the cookies of the copy
C15_Witness ==
  /\ pc = "done"
  /\ gets # <<>>
  /\ session = <<Cookie("BotuReadKernel", "k1")>>
  /\ browser_cookies = <<Cookie("BotuReadKernel", ""), Cookie("botureadkernel", "k2")>>


\* the least number of a non-empty set of numbers
MinOf(S) == CHOOSE x \in S : \A y \in S : x <= y

\* C16: a call of _get_cookie_value returns the value of the first cookie of
\* the list whose name is the name asked for and whose value is not empty;
\* when there is none, the value of the first cookie whose name is the name
\* asked for but for the case of its letters and whose value is not empty;
\* when there is none either, no value.  It never returns the empty value,
\* and the cookies of the browser are after the call what they were before.
C16_ExactThenFolded ==
  pc = "bridged" =>
    LET cs == bridged.cookies
        n == bridged.cookie_name
        exact == {i \in 1..Len(cs) : cs[i].name = n /\ cs[i].value # ""}
        folded == {i \in 1..Len(cs) : Lower(cs[i].name) = Lower(n) /\ cs[i].value # ""}
    IN  /\ bridged.value = IF exact # {} THEN cs[MinOf(exact)].value
                           ELSE IF folded # {} THEN cs[MinOf(folded)].value
                           ELSE NoValue
        /\ bridged.value # ""
        /\ browser_cookies = cs

\* C16: the second cookie has the name asked for, the first has it but for the case
C16_Witness ==
  /\ pc = "bridged"
  /\ bridged.cookies = <<Cookie("botureadkernel", "k2"), Cookie("BotuReadKernel", "k1")>>
  /\ bridged.cookie_name = "BotuReadKernel"
  /\ bridged.value = "k1"

----------------------------------------------------------------------------
(* Properties of the viewer url *)

\* the last segment of the path of a url that is not empty, "" when there is none
ExpectedSegment(url) ==
  LET at == {i \in 1..Len(url.path) : url.path[i] # "/"}
  IN  IF at = {} THEN "" ELSE url.path[CHOOSE i \in at : \A j \in at : j <= i]

\* C17: a run whose discovery returned a url that is empty or has no
\* non-empty last path segment ends with MissingViewerContext and sends no
\* API call, and no other run ends so; a run that has gone past that check
\* has for viewer book id the last path segment of the url the discovery
\* returned, which is not empty, and every page-manifest call carries it.
C17_ViewerBookIdFromFoundUrl ==
  LET segment == ExpectedSegment(found_url)
  IN  /\ error = "MissingViewerContext" => segment = "" /\ posts = <<>> /\ pc = "failed"
      /\ pc \in {"chapters", "snapshot", "chapter", "image", "set_toc", "save", "done"} =>
           segment # "" /\ viewer_bookid = segment
      /\ posts # <<>> => segment # "" /\ viewer_bookid = segment
      /\ \A i \in 1..Len(posts) : posts[i].api = "chapter" => posts[i].form[2] = segment

\* C17: the token was found on a context whose url has the path "/"
C17_Witness ==
  /\ error = "MissingViewerContext"
  /\ scanid # <<>>
  /\ found_url = RootUrl
  /\ posts = <<>>

----------------------------------------------------------------------------
(* Properties of the order of the requests *)

\* C18: when a page-manifest call is sent, every entry of the manifest of the
\* chapter before has been taken, every image request sent so far was for an
\* earlier chapter, has been answered and has its page in the document; an
\* image request is for the chapter whose manifest was received last; and a
\* step sends at most one request and receives the reply to it, so that no
\* request is sent while another awaits its reply.
C18_OneChapterAtATime ==
  [][/\ (pc = "chapter" /\ posts' # posts) =>
          /\ jgps = <<>>
          /\ Len(doc) = Len(gets)
          /\ \A k \in 1..Len(gets) : gets[k] < ci
          /\ \A k \in 1..Len(doc) : doc[k].chapter < ci
     /\ gets' # gets =>
          /\ gets' = Append(gets, ci)
          /\ Len(ManifestPosts) >= 1
          /\ Last(ManifestPosts).form[1] = Emid(data[ci])
          /\ posts' = posts
          /\ last_reply'.api = "image"
     /\ posts' # posts =>
          /\ Len(posts') = Len(posts) + 1
          /\ gets' = gets
          /\ last_reply'.api = Last(posts').api]_vars

\* C18: the manifest of the second chapter was asked for after the one image
\* of the first chapter was placed
C18_Witness ==
  /\ pc = "image"
  /\ ci = 2
  /\ Len(posts) = 3
  /\ gets = <<1>>
  /\ Len(doc) = 1
  /\ doc[1].chapter = 1

----------------------------------------------------------------------------
(* Properties of the candidate list *)

\* the polling of the candidates is going on, or has ended without a token
PollingOrTimedOut == pc \in {"poll_head", "poll_page"} \/ error = "ScanIdNotFound"

\* C19: the candidates are the original page and the new tabs seen at the
\* tick of the watch loop that ended it; no step of the polling changes the
\* list; only candidates are probed, and only urls of candidates are kept for
\* the message of the timeout: a tab opened after that tick is never probed
\* and no url is recorded for it.
C19_CandidatesFixed ==
  /\ [](PollingOrTimedOut =>
          /\ Range(candidate_pages) = Range(new_pages) \cup {page}
          /\ \A i \in 1..Len(probed) : probed[i].page \in Range(candidate_pages)
          /\ \A e \in last_urls : e.page \in Range(candidate_pages))
  /\ [][(pc = "poll_head" \/ pc = "poll_page") =>
          /\ candidate_pages' = candidate_pages
          /\ new_pages' = new_pages]_vars

\* C19: a second tab opened after the tick that saw the first; the polling
\* timed out having recorded a url
C19_Witness ==
  /\ error = "ScanIdNotFound"
  /\ new_pages = <<1>>
  /\ context_pages = <<0, 1, 2>>
  /\ candidate_pages = <<1, 0>>
  /\ seen_urls # {}

----------------------------------------------------------------------------
(* Termination of the discovery *)

\* C20: when the program runs on, the discovery ends, with a token or with
\* the fatal error "scanid not found"; when it ends with a token, the token
\* is not blank and has no space around it; when it ends with the error, no
\* token was returned; and main never comes to line 240 with an empty
\* candidate list and no token, so that the error of line 241 is never raised.
C20_DiscoveryEnds ==
  /\ <>(pc = "viewer" \/ pc = "failed")
  /\ [](pc = "viewer" => scanid # <<>> /\ Strip(scanid) = scanid /\ error = "")
  /\ [](pc = "failed" => error = "ScanIdNotFound" /\ scanid = <<>>)
  /\ [](~(pc = "enter_poll" /\ candidate_pages = <<>> /\ scanid = <<>>))

\* C20: the token was found by the watch loop itself, which empties the candidate list
C20_Witness ==
  /\ pc = "viewer"
  /\ candidate_pages = <<>>
  /\ scanid = <<"a">>
  /\ new_pages = <<>>

====
